---- MODULE Spec2Model ----
(***************************************************************************)
(* Model of the adapter initialisation and calibration engine of           *)
(* run_exp.py: temporary_weights / search_eta, estimate_gradient and       *)
(* reinit_lora_modules.                                                     *)
(*                                                                         *)
(* Numbers.  Tensors hold reals; the model holds integers.  Parameter      *)
(* values of the eta search are fixed point with unit 1e-4, so that every  *)
(* eta of the grid is an integer (10.0 is 100000, 1e-4 is 1).  A loss is a  *)
(* float: a finite rational n/d, +inf or NaN, compared as IEEE floats      *)
(* compare.                                                                *)
(***************************************************************************)
EXTENDS Integers, Sequences, FiniteSets, TLC

(***************************************************************************)
(* Bounds of the model.                                                    *)
(***************************************************************************)
\* largest number of batches the DataLoader yields for the calibration set
MaxBatches == 2
\* largest initial parameter value / largest gradient-map entry
MaxVal == 1
\* largest per-batch gradient of a parameter
MaxGrad == 2
\* largest entry a random initialiser draws for a factor
MaxSample == 1

(***************************************************************************)
(* The model under calibration: its named parameters, in the order of      *)
(* model.named_parameters().                                               *)
(***************************************************************************)
ParamOrder == <<"w1", "w2">>
Names == {ParamOrder[i] : i \in 1..Len(ParamOrder)}

(***************************************************************************)
(* Floats (losses).                                                        *)
(***************************************************************************)
Fin(n, d) == [t |-> "fin", n |-> n, d |-> d]
Inf == [t |-> "inf", n |-> 0, d |-> 1]
NaN == [t |-> "nan", n |-> 0, d |-> 1]

\* x + y for a running loss x = n/1 and a batch loss y = n/1
FAdd(x, y) ==
  IF x.t = "nan" \/ y.t = "nan" THEN NaN
  ELSE IF x.t = "inf" \/ y.t = "inf" THEN Inf
  ELSE Fin(x.n + y.n, 1)

\* x / num for num > 0
FDiv(x, num) == IF x.t = "fin" THEN Fin(x.n, x.d * num) ELSE x

\* x < y: every comparison with NaN is false
FLess(x, y) ==
  CASE x.t = "nan" \/ y.t = "nan" -> FALSE
    [] x.t = "inf" -> FALSE
    [] y.t = "inf" -> TRUE
    [] OTHER -> x.n * y.d < y.n * x.d

\* x = y as floats (NaN equals nothing)
FEq(x, y) ==
  CASE x.t = "nan" \/ y.t = "nan" -> FALSE
    [] x.t = "inf" \/ y.t = "inf" -> x.t = y.t
    [] OTHER -> x.n * y.d = y.n * x.d

(***************************************************************************)
(* search_eta: the candidate grid, in units of 1e-4.                       *)
(***************************************************************************)
eta_list == <<100000, 50000, 10000, 5000, 1000, 500, 100, 50, 10, 5, 1>>
NoEta == 0

\* what outputs.loss.item() can be for one batch
FiniteLoss == {Fin(0, 1), Fin(1, 1)}
LossVals == FiniteLoss \cup {Inf, NaN}

VARIABLES
  \* ---- search_eta / temporary_weights
  param,            \* model.named_parameters(): name -> value (unit 1e-4)
  named_grad,       \* kwargs["named_grads"]: the delta map, name -> value
  numBatches,       \* number of batches the DataLoader yields
  se_pc,            \* "loop" | "body" | "returned" | "raised"
  se_err,           \* "" | "entry" | "batch" | "ZeroDivisionError"
  etaIdx,           \* index into eta_list of the current / next candidate
  original_params,  \* the snapshot held by the open scope
  num,              \* batches evaluated for the current candidate
  loss,             \* running loss of the current candidate
  min_loss,
  best_eta,
  \* ---- history of the run, read only by the properties
  param0,           \* parameters when search_eta was called
  preScope,         \* parameters immediately before the last scope entry
  scopeExits,       \* number of scopes entered and left so far
  probe,            \* a candidate index, fixed for the run
  probeLoss,        \* the mean loss measured for candidate probe
  \* ---- estimate_gradient
  grad,             \* p.grad: name -> value; a name outside the domain is None
  record_dict,      \* named_grads while it accumulates: name -> running sum
  hooks,            \* parameters that carry a registered, not yet removed hook
  egBatches,        \* number of batches the DataLoader yields
  eg_pc,            \* "start" | "loop" | "backward" | "returned" | "raised"
  eg_num,           \* num
  todo,             \* parameters the running backward pass has not reached
  eg_ret,           \* the returned named_grads: name -> mean
  \* ---- history of the run, read only by the properties
  trueSum,          \* per parameter, the sum of the gradients autograd produced
  gotGrad,          \* parameters for which autograd produced a gradient
  \* ---- reinit_lora_modules, one LoraLinear module
  cfg,              \* init_config
  has_grad,         \* named_grads holds an entry for this module's weight
  weight,           \* module.weight.data: [mat, den], the matrix mat / den
  lora_A,           \* module.lora_A.default.weight: [mat, num, den],
  lora_B,           \*   the matrix mat * sqrt(num / den)
  rl_pc,            \* "ready" | "done" | "raised"
  rl_err,           \* "" | "ValueError" | "KeyError" | "UnboundLocalError"
  \* ---- history of the call, read only by the properties
  weight0,          \* weight, lora_A, lora_B when the call started
  lora_A0,
  lora_B0,
  draw,             \* what the random initialisers and the SVDs returned
  clipped           \* the norm_clip rescaling was applied

seVars == <<param, named_grad, numBatches, se_pc, se_err, etaIdx,
            original_params, num, loss, min_loss, best_eta,
            param0, preScope, scopeExits, probe, probeLoss>>

egVars == <<grad, record_dict, hooks, egBatches, eg_pc, eg_num, todo, eg_ret,
            trueSum, gotGrad>>

rlVars == <<cfg, has_grad, weight, lora_A, lora_B, rl_pc, rl_err,
            weight0, lora_A0, lora_B0, draw, clipped>>

vars == <<seVars, egVars, rlVars>>

\* what search_eta, estimate_gradient and reinit_lora_modules leave alone
notSe == <<egVars, rlVars>>
notEg == <<seVars, rlVars>>
notRl == <<seVars, egVars>>

(***************************************************************************)
(* temporary_weights                                                       *)
(***************************************************************************)
\* the parameters the scope touches, in named_parameters() order
Targets(aw) == SelectSeq(ParamOrder, LAMBDA n : n \in DOMAIN aw)

\* a snapshot that keeps only the first target
SaveOriginalFirstOnly(p, aw) ==
  [n \in {Targets(aw)[i] : i \in 1..(IF Len(Targets(aw)) > 0 THEN 1 ELSE 0)} |-> p[n]]

\* original_params = {name: param.data.clone() ... if name in adapted_weights}
SaveOriginal(p, aw) == [n \in (Names \cap DOMAIN aw) |-> p[n]]

\* param.data -= eta * adapted_weights[name]
ApplyDelta(v, eta, delta) == v - eta * delta

\* the apply loop, stopped after the first k targets
ApplyFirst(p, aw, eta, k) ==
  LET ts == Targets(aw)
      done == {ts[i] : i \in 1..k}
  IN [n \in Names |-> IF n \in done THEN ApplyDelta(p[n], eta, aw[n]) ELSE p[n]]

\* an exit that restores nothing
RestoreNothing(p, snap) == p

\* finally: param.data.copy_(original_params[name])
RestoreOriginal(p, snap) ==
  [n \in Names |-> IF n \in DOMAIN snap THEN snap[n] ELSE p[n]]

(***************************************************************************)
(* search_eta                                                              *)
(***************************************************************************)
SeInit(paramSet, probes) ==
  /\ param \in [Names -> paramSet]
  /\ \E dom \in SUBSET Names : named_grad \in [dom -> 1..MaxVal]
  /\ numBatches \in 0..MaxBatches
  /\ se_pc = "loop"
  /\ se_err = ""
  /\ etaIdx = 1
  /\ original_params = << >>
  /\ num = 0
  /\ loss = Fin(0, 1)
  /\ min_loss = Inf
  /\ best_eta = NoEta
  /\ param0 = param
  /\ preScope = param
  /\ scopeExits = 0
  /\ probe \in probes
  /\ probeLoss = NaN

\* with temporary_weights(model, named_grad, eta): snapshot, then apply.
\* Moving a delta to the parameter's device may fail; the apply loop is not
\* inside the try, so the parameters already changed stay changed.
EnterScope ==
  /\ UNCHANGED notSe
  /\ se_pc = "loop"
  /\ etaIdx <= Len(eta_list)
  /\ LET eta == eta_list[etaIdx]
         ts == Targets(named_grad)
     IN /\ preScope' = param
        /\ original_params' = SaveOriginal(param, named_grad)
        /\ \/ /\ param' = ApplyFirst(param, named_grad, eta, Len(ts))
              /\ se_pc' = "body"
              /\ se_err' = se_err
           \/ \E k \in 1..Len(ts) :
                /\ param' = ApplyFirst(param, named_grad, eta, k - 1)
                /\ se_pc' = "raised"
                /\ se_err' = "entry"
  /\ num' = 0
  /\ loss' = Fin(0, 1)
  /\ UNCHANGED <<named_grad, numBatches, etaIdx, min_loss, best_eta,
                 param0, scopeExits, probe, probeLoss>>

\* one iteration of "for batch in dataloader": forward pass, loss += item
EvalBatch(L) ==
  /\ UNCHANGED notSe
  /\ se_pc = "body"
  /\ num < numBatches
  /\ \E l \in L :
       /\ num' = num + 1
       /\ loss' = FAdd(loss, l)
  /\ UNCHANGED <<param, named_grad, numBatches, se_pc, se_err, etaIdx,
                 original_params, min_loss, best_eta,
                 param0, preScope, scopeExits, probe, probeLoss>>

\* the forward pass of a batch raises: the finally clause restores, the
\* error leaves search_eta
BatchFail ==
  /\ UNCHANGED notSe
  /\ se_pc = "body"
  /\ num < numBatches
  /\ param' = RestoreOriginal(param, original_params)
  /\ original_params' = << >>
  /\ se_pc' = "raised"
  /\ se_err' = "batch"
  /\ scopeExits' = scopeExits + 1
  /\ UNCHANGED <<named_grad, numBatches, etaIdx, num, loss, min_loss,
                 best_eta, param0, preScope, probe, probeLoss>>

\* loss < min_loss
Better(l, m) == FLess(l, m)

\* after the batch loop: loss /= num, compare, leave the scope
EndCandidate ==
  /\ UNCHANGED notSe
  /\ se_pc = "body"
  /\ num = numBatches
  /\ param' = RestoreOriginal(param, original_params)
  /\ original_params' = << >>
  /\ scopeExits' = scopeExits + 1
  /\ IF num = 0
       THEN \* loss /= num with num = 0
            /\ se_pc' = "raised"
            /\ se_err' = "ZeroDivisionError"
            /\ UNCHANGED <<etaIdx, loss, min_loss, best_eta, probeLoss>>
       ELSE LET mean == FDiv(loss, num)
            IN /\ loss' = mean
               /\ probeLoss' = IF etaIdx = probe THEN mean ELSE probeLoss
               /\ IF Better(mean, min_loss)
                    THEN /\ min_loss' = mean
                         /\ best_eta' = eta_list[etaIdx]
                    ELSE UNCHANGED <<min_loss, best_eta>>
               /\ etaIdx' = etaIdx + 1
               /\ se_pc' = "loop"
               /\ se_err' = se_err
  /\ UNCHANGED <<named_grad, numBatches, num, param0, preScope, probe>>

\* return best_eta
ReturnBest ==
  /\ UNCHANGED notSe
  /\ se_pc = "loop"
  /\ etaIdx > Len(eta_list)
  /\ se_pc' = "returned"
  /\ UNCHANGED <<param, named_grad, numBatches, se_err, etaIdx,
                 original_params, num, loss, min_loss, best_eta,
                 param0, preScope, scopeExits, probe, probeLoss>>


(***************************************************************************)
(* estimate_gradient                                                       *)
(***************************************************************************)
\* a freshly loaded model: every parameter is trainable
requires_grad == [n \in Names |-> TRUE]

\* the parameters record_gradient_hook visits: trainable, with a gradient
Recordable(g) == {n \in DOMAIN g : requires_grad[n]}

\* a hook that overwrites the record instead of adding to it
RecordOverwrite(rd, g) ==
  [n \in (DOMAIN rd \cup Recordable(g)) |->
     IF n \in Recordable(g) THEN g[n] ELSE rd[n]]

\* record_gradient_hook, its effect on record_dict:
\*   record_dict[n] = p.grad  if n is new,  record_dict[n] += p.grad  otherwise
RecordInto(rd, g) ==
  [n \in (DOMAIN rd \cup Recordable(g)) |->
     IF n \notin Recordable(g) THEN rd[n]
     ELSE IF n \in DOMAIN rd THEN rd[n] + g[n]
     ELSE g[n]]

\* record_gradient_hook, its effect on the gradients: p.grad = None
ClearRecorded(g) == [n \in (DOMAIN g \ Recordable(g)) |-> g[n]]

\* AccumulateGrad of autograd: p.grad = g if it is None, p.grad += g otherwise
Accumulate(g, p, v) ==
  [n \in (DOMAIN g \cup {p}) |->
     IF n # p THEN g[n]
     ELSE IF p \in DOMAIN g THEN g[p] + v
     ELSE v]

\* for n, g in named_grads.items(): named_grads[n] /= num
Averaged(rd, n) == [x \in DOMAIN rd |-> Fin(rd[x], n)]

EgIdle ==
  /\ grad = << >>
  /\ record_dict = << >>
  /\ hooks = {}
  /\ egBatches = 0
  /\ eg_pc = "idle"
  /\ eg_num = 0
  /\ todo = {}
  /\ eg_ret = << >>
  /\ trueSum = [n \in Names |-> 0]
  /\ gotGrad = {}

EgInit(priorGrads) ==
  /\ grad \in priorGrads
  /\ record_dict = << >>
  /\ hooks = {}
  /\ egBatches \in 0..MaxBatches
  /\ eg_pc = "start"
  /\ eg_num = 0
  /\ todo = {}
  /\ eg_ret = << >>
  /\ trueSum = [n \in Names |-> 0]
  /\ gotGrad = {}

\* for name, param in model.named_parameters(): hooks.append(register_hook)
RegisterHooks ==
  /\ UNCHANGED notEg
  /\ eg_pc = "start"
  /\ hooks' = Names
  /\ eg_pc' = "loop"
  /\ UNCHANGED <<grad, record_dict, egBatches, eg_num, todo, eg_ret,
                 trueSum, gotGrad>>

\* num += 1; the forward pass succeeds and outputs.loss.backward() starts
BeginBatch ==
  /\ UNCHANGED notEg
  /\ eg_pc = "loop"
  /\ eg_num < egBatches
  /\ eg_num' = eg_num + 1
  /\ todo' = Names
  /\ eg_pc' = "backward"
  /\ UNCHANGED <<grad, record_dict, hooks, egBatches, eg_ret, trueSum, gotGrad>>

\* num += 1; the forward pass raises: nothing catches it
ForwardRaises ==
  /\ UNCHANGED notEg
  /\ eg_pc = "loop"
  /\ eg_num < egBatches
  /\ eg_num' = eg_num + 1
  /\ eg_pc' = "raised"
  /\ UNCHANGED <<grad, record_dict, hooks, egBatches, todo, eg_ret,
                 trueSum, gotGrad>>

\* the backward pass raises part way: nothing catches it
BackwardRaises ==
  /\ UNCHANGED notEg
  /\ eg_pc = "backward"
  /\ todo # {}
  /\ eg_pc' = "raised"
  /\ UNCHANGED <<grad, record_dict, hooks, egBatches, eg_num, todo, eg_ret,
                 trueSum, gotGrad>>

\* backward reaches parameter p with gradient v: the hook registered on p
\* runs first (it sees the gradients accumulated so far, not p's new one),
\* then autograd accumulates v into p.grad
BackwardParam(p) ==
  /\ UNCHANGED notEg
  /\ eg_pc = "backward"
  /\ p \in todo
  /\ \E v \in 1..MaxGrad :
       LET rd1 == IF p \in hooks THEN RecordInto(record_dict, grad) ELSE record_dict
           g1 == IF p \in hooks THEN ClearRecorded(grad) ELSE grad
       IN /\ record_dict' = rd1
          /\ grad' = Accumulate(g1, p, v)
          /\ trueSum' = [trueSum EXCEPT ![p] = @ + v]
  /\ gotGrad' = gotGrad \cup {p}
  /\ todo' = todo \ {p}
  /\ UNCHANGED <<hooks, egBatches, eg_pc, eg_num, eg_ret>>

\* parameter p took no part in this batch's loss: no gradient, no hook call
BackwardSkips(p) ==
  /\ UNCHANGED notEg
  /\ eg_pc = "backward"
  /\ p \in todo
  /\ todo' = todo \ {p}
  /\ UNCHANGED <<grad, record_dict, hooks, egBatches, eg_pc, eg_num, eg_ret,
                 trueSum, gotGrad>>

\* after backward: the explicit hook call, then "p.grad = None" for all p
EndBatch ==
  /\ UNCHANGED notEg
  /\ eg_pc = "backward"
  /\ todo = {}
  /\ record_dict' = RecordInto(record_dict, grad)
  /\ grad' = << >>
  /\ eg_pc' = "loop"
  /\ UNCHANGED <<hooks, egBatches, eg_num, todo, eg_ret, trueSum, gotGrad>>

\* after the batch loop: average, remove the hooks, return named_grads
FinishEstimate ==
  /\ UNCHANGED notEg
  /\ eg_pc = "loop"
  /\ eg_num = egBatches
  /\ eg_ret' = Averaged(record_dict, eg_num)
  /\ hooks' = {}
  /\ eg_pc' = "returned"
  /\ UNCHANGED <<grad, record_dict, egBatches, eg_num, todo, trueSum, gotGrad>>

(***************************************************************************)
(* reinit_lora_modules                                                     *)
(*                                                                         *)
(* One LoraLinear module with a 2 x 2 weight and rank 1: lora_B is 2 x 1,  *)
(* lora_A is 1 x 2.  A matrix is a sequence of rows.  Entries are integers *)
(* (fixed point, unit 1): a root or a quotient rounds toward zero, and a    *)
(* cast to bfloat16 keeps the leading bit of an entry.  The rescaling of   *)
(* norm_clip is kept exact: a factor is stored as mat * sqrt(num / den)    *)
(* and the weight as mat / den.  The DoRA variant is not modelled          *)
(* (peft_conf.dora is False).                                              *)
(***************************************************************************)
OutDim == 2
InDim == 2
\* lora_r = min(module.lora_A.default.weight.shape)
lora_r == 1
\* module.scaling["default"]
scaling_factor == 2
\* init_config.stable_gamma
stable_gamma == 1

Abs(x) == IF x < 0 THEN -x ELSE x
Max(a, b) == IF a > b THEN a ELSE b
TruncDiv(x, d) == IF x >= 0 THEN x \div d ELSE -((-x) \div d)
ISqrt(x) == CHOOSE k \in 0..x : k * k <= x /\ (k + 1) * (k + 1) > x
IRoot4(x) == ISqrt(ISqrt(x))

RECURSIVE SumTo(_, _)
SumTo(f, n) == IF n = 0 THEN 0 ELSE f[n] + SumTo(f, n - 1)

RECURSIVE MaxTo(_, _)
MaxTo(f, n) == IF n = 0 THEN 0 ELSE Max(f[n], MaxTo(f, n - 1))

MatMap(X, Op(_)) == [i \in 1..Len(X) |-> [j \in 1..Len(X[1]) |-> Op(X[i][j])]]
MatScale(k, X) == MatMap(X, LAMBDA v : k * v)
MatDivBy(X, k) == MatMap(X, LAMBDA v : TruncDiv(v, k))
MatSub(X, Y) == [i \in 1..Len(X) |-> [j \in 1..Len(X[1]) |-> X[i][j] - Y[i][j]]]
\* X @ Y
MatMul(X, Y) ==
  [i \in 1..Len(X) |-> [j \in 1..Len(Y[1]) |->
     SumTo([k \in 1..Len(Y) |-> X[i][k] * Y[k][j]], Len(Y))]]
\* torch.max(torch.abs(X))
MaxAbs(X) ==
  MaxTo([i \in 1..Len(X) |->
           MaxTo([j \in 1..Len(X[1]) |-> Abs(X[i][j])], Len(X[1]))], Len(X))
\* X[:, lo:hi] and X[lo:hi, :]
ColBlock(X, lo, hi) == [i \in 1..Len(X) |-> [j \in 1..(hi - lo) |-> X[i][lo + j]]]
RowBlock(X, lo, hi) == [i \in 1..(hi - lo) |-> X[lo + i]]
ZeroMat(m, n) == [i \in 1..m |-> [j \in 1..n |-> 0]]
IsZero(X) == \A i \in 1..Len(X) : \A j \in 1..Len(X[1]) : X[i][j] = 0

\* the accepted values of the configuration fields
Modes == {"simple", "svd", "gradient"}
Dists == {"gaussian", "kaiming", "fan_out_kaiming", "xavier", "zeros", "unit",
          "orthogonal"}
Scales == {"default", "stable", "unit", "normalized", "gd", "weightS"}
Directions == {"LoRA-One", "LoRA-GA"}
Dtypes == {"none", "bf16", "fp32"}
\* a string that none of the branches knows
Unknown == "bogus"

\* the configurations of the model.  lora_A and lora_B are read in simple
\* mode only; elsewhere they stay at one value.  The six sampling
\* initialisers differ in the distribution they sample, which the model does
\* not tell apart: lora_A is one of them, zeros or an unknown name, lora_B is
\* any name.
Configs ==
  {c \in [mode : Modes \cup {Unknown},
          lora_A : {"gaussian", "zeros", Unknown},
          lora_B : Dists \cup {Unknown}, scale : Scales \cup {Unknown},
          direction : Directions \cup {Unknown}, dtype : Dtypes,
          norm_clip : BOOLEAN] :
     c.mode # "simple" => (c.lora_A = "gaussian" /\ c.lora_B = "zeros")}

\* the base weights of the model
Weights == {ZeroMat(OutDim, InDim),
            <<<<1, 0>>, <<0, -1>>>>,
            <<<<2, -1>>, <<0, 2>>>>,
            <<<<4, 1>>, <<-2, 3>>>>,
            <<<<20, -3>>, <<5, 1>>>>}

\* what a random initialiser can write into an m x n factor
Samples(m, n) == [1..m -> [1..n -> 0..MaxSample]]
\* the 2 x 2 matrices with orthonormal columns and integer entries: what an
\* SVD can return as U and as V.T
Orth2 == {<<<<a, 0>>, <<0, b>>>> : a, b \in {-1, 1}} \cup
         {<<<<0, a>>, <<b, 0>>>> : a, b \in {-1, 1}}
\* the singular values an SVD can return, in descending order
SingVals == {<<2, 2>>, <<18, 2>>}

NoDraw == [a |-> ZeroMat(lora_r, InDim), b |-> ZeroMat(OutDim, lora_r),
           U |-> ZeroMat(OutDim, 2), Vt |-> ZeroMat(2, InDim),
           S |-> <<0, 0>>, Sw |-> <<0, 0>>]

\* the outcomes of the random calls a run under configuration c makes
Draws(c, has) ==
  CASE c.mode = "simple" ->
         {[NoDraw EXCEPT !.a = a, !.b = b] :
            a \in IF c.lora_A \in Dists \ {"zeros"}
                    THEN Samples(lora_r, InDim) ELSE {NoDraw.a},
            b \in IF c.lora_A \in Dists /\ c.lora_B \in Dists \ {"zeros"}
                    THEN Samples(OutDim, lora_r) ELSE {NoDraw.b}}
    [] c.mode = "svd" ->
         {[NoDraw EXCEPT !.U = u, !.Vt = v, !.S = sv] :
            u \in Orth2, v \in Orth2, sv \in SingVals}
    [] c.mode = "gradient" /\ has ->
         {[NoDraw EXCEPT !.U = u, !.Vt = v, !.S = sv, !.Sw = sw] :
            u \in Orth2, v \in Orth2, sv \in SingVals,
            sw \in IF c.scale = "weightS" THEN SingVals ELSE {NoDraw.Sw}}
    [] OTHER -> {NoDraw}

\* zeros_ mistaken for ones_
SampleOnes(name, drawn) ==
  IF name = "zeros" THEN MatMap(drawn, LAMBDA v : 1) ELSE drawn

\* torch.nn.init.<name>_(weight): zeros_ writes zeros, the others sample
Sample(name, drawn) == IF name = "zeros" THEN MatScale(0, drawn) ELSE drawn

\* mode == "simple"
SimpleInit(c, d, A0, B0) ==
  IF c.lora_A \notin Dists
    THEN [A |-> A0, B |-> B0, err |-> "ValueError"]
  ELSE LET A1 == Sample(c.lora_A, d.a) IN
  IF c.lora_B \notin Dists
    THEN [A |-> A1, B |-> B0, err |-> "ValueError"]
  ELSE LET B1 == Sample(c.lora_B, d.b) IN
  IF c.scale = "stable"
    \* m and n are assigned only in the svd branch: they are unbound here
    THEN [A |-> A1, B |-> B1, err |-> "UnboundLocalError"]
    ELSE [A |-> A1, B |-> B1, err |-> ""]

\* x * dim**0.25 / gamma**0.5
StableScale(X, dim) == MatDivBy(MatScale(IRoot4(dim), X), ISqrt(stable_gamma))

\* mode == "svd"
SvdInit(c, d, A0, B0) ==
  LET U1 == ColBlock(d.U, 0, lora_r)
      V1 == RowBlock(d.Vt, 0, lora_r)
  IN CASE c.scale = "default" ->
            LET sq == ISqrt(TruncDiv(d.S[1], scaling_factor))
            IN [A |-> MatScale(sq, V1), B |-> MatScale(sq, U1), err |-> ""]
       [] c.scale = "stable" ->
            [A |-> StableScale(V1, InDim), B |-> StableScale(U1, OutDim),
             err |-> ""]
       [] c.scale = "unit" -> [A |-> V1, B |-> U1, err |-> ""]
       [] c.scale = "normalized" ->
            LET S_sum == SumTo(d.S, lora_r)
                g == TruncDiv(ISqrt(d.S[1]), ISqrt(S_sum)) * ISqrt(lora_r)
            IN [A |-> MatScale(g, V1), B |-> MatScale(g, U1), err |-> ""]
       [] OTHER -> [A |-> A0, B |-> B0, err |-> ""]

\* a gradient branch that never looks the gradient up
GradientInitNoLookup(c, has, d, A0, B0) ==
  [A |-> RowBlock(d.Vt, 0, lora_r), B |-> ColBlock(d.U, 0, lora_r), err |-> ""]

\* grads = named_grad[grad_name]
GradLookup(has) == IF has THEN "" ELSE "KeyError"

\* mode == "gradient"
GradientInit(c, has, d, A0, B0) ==
  IF GradLookup(has) # ""
    THEN [A |-> A0, B |-> B0, err |-> GradLookup(has)]
  ELSE IF c.direction \notin Directions
    \* neither branch assigns A and B: their first use raises
    THEN [A |-> A0, B |-> B0, err |-> "UnboundLocalError"]
  ELSE
    LET one == c.direction = "LoRA-One"
        nrm == TruncDiv(ISqrt(d.S[1]), ISqrt(d.S[1]))
        Braw == IF one THEN MatScale(nrm, ColBlock(d.U, 0, lora_r))
                       ELSE ColBlock(d.U, lora_r, 2 * lora_r)
        Araw == IF one THEN MatScale(nrm, RowBlock(d.Vt, 0, lora_r))
                       ELSE RowBlock(d.Vt, 0, lora_r)
        avg_s == ISqrt(TruncDiv(d.Sw[1], scaling_factor))
        Scaled(X) ==
          CASE c.scale = "gd" -> MatDivBy(X, scaling_factor)
            [] c.scale = "unit" -> X
            [] c.scale = "stable" ->
                 IF one THEN MatDivBy(X, ISqrt(stable_gamma))
                        ELSE StableScale(X, OutDim)
            [] c.scale = "weightS" -> MatScale(avg_s, X)
            [] OTHER -> X
    IN [A |-> Scaled(Araw), B |-> Scaled(Braw), err |-> ""]

\* the branch on init_config.mode; an unknown mode runs no branch
FactorInit(c, has, d, A0, B0) ==
  CASE c.mode = "simple" -> SimpleInit(c, d, A0, B0)
    [] c.mode = "svd" -> SvdInit(c, d, A0, B0)
    [] c.mode = "gradient" -> GradientInit(c, has, d, A0, B0)
    [] OTHER -> [A |-> A0, B |-> B0, err |-> ""]

\* .to(torch.bfloat16) of one entry: the leading bit survives
RECURSIVE LeadingBit(_)
LeadingBit(x) == IF x <= 1 THEN x ELSE 2 * LeadingBit(x \div 2)
Bf16(v) == IF v < 0 THEN -LeadingBit(-v) ELSE LeadingBit(v)

\* the cast of the factors: bf16 rounds, fp32 and no dtype change nothing
CastTo(dtype, X) == IF dtype = "bf16" THEN MatMap(X, Bf16) ELSE X

\* an offset that forgets the scaling factor
OffsetUnscaled(B, A) == MatMul(B, A)

\* offset = (lora_B @ lora_A) * scaling_factor
Offset(B, A) == MatScale(scaling_factor, MatMul(B, A))

\* a comparison that never finds the ratio below 1
NeverBelowOne(p, q) == FALSE

\* ratio < 1 for ratio = p / q: a zero q gives inf or NaN, never below 1
RatioBelowOne(p, q) == q # 0 /\ p < q

Stored(X) == [mat |-> X, num |-> 1, den |-> 1]

\* the last block of reinit_lora_modules, on the factors after the cast
Finalize(c, A, B, W) ==
  IF c.direction = "LoRA-One"
    THEN [A |-> Stored(A), B |-> Stored(B), W |-> [mat |-> W, den |-> 1],
          clipped |-> FALSE]
  ELSE
    LET off == Offset(B, A)
        p == MaxAbs(W)
        q == MaxAbs(off)
    IN IF c.norm_clip /\ RatioBelowOne(p, q)
         \* offset *= ratio; lora_A *= ratio**0.5; lora_B *= ratio**0.5
         THEN [A |-> [mat |-> A, num |-> p, den |-> q],
               B |-> [mat |-> B, num |-> p, den |-> q],
               W |-> [mat |-> MatSub(MatScale(q, W), MatScale(p, off)),
                      den |-> q],
               clipped |-> TRUE]
         ELSE [A |-> Stored(A), B |-> Stored(B),
               W |-> [mat |-> MatSub(W, off), den |-> 1],
               clipped |-> FALSE]

\* the whole call: the mode branch, the cast, the offset
Reinit(c, has, d, A0, B0, W0) ==
  LET f == FactorInit(c, has, d, A0, B0)
  IN IF f.err # ""
       THEN [A |-> Stored(f.A), B |-> Stored(f.B),
             W |-> [mat |-> W0, den |-> 1], clipped |-> FALSE, err |-> f.err]
       ELSE LET z == Finalize(c, CastTo(c.dtype, f.A), CastTo(c.dtype, f.B), W0)
            IN [A |-> z.A, B |-> z.B, W |-> z.W, clipped |-> z.clipped,
                err |-> ""]

\* a module as get_peft_model leaves it: lora_A random, lora_B zero
PeftA == <<<<1, 3>>>>
PeftB == ZeroMat(OutDim, lora_r)

RlIdle ==
  /\ cfg = [mode |-> "simple", lora_A |-> "gaussian", lora_B |-> "zeros",
            scale |-> "default", direction |-> "LoRA-One", dtype |-> "none",
            norm_clip |-> FALSE]
  /\ has_grad = FALSE
  /\ weight = [mat |-> ZeroMat(OutDim, InDim), den |-> 1]
  /\ lora_A = Stored(PeftA)
  /\ lora_B = Stored(PeftB)
  /\ rl_pc = "idle"
  /\ rl_err = ""
  /\ weight0 = weight
  /\ lora_A0 = lora_A
  /\ lora_B0 = lora_B
  /\ draw = NoDraw
  /\ clipped = FALSE

RlInit ==
  /\ cfg \in Configs
  /\ has_grad \in (IF cfg.mode = "gradient" THEN BOOLEAN ELSE {FALSE})
  /\ \E W \in Weights : weight = [mat |-> W, den |-> 1]
  /\ lora_A = Stored(PeftA)
  /\ lora_B = Stored(PeftB)
  /\ rl_pc = "ready"
  /\ rl_err = ""
  /\ weight0 = weight
  /\ lora_A0 = lora_A
  /\ lora_B0 = lora_B
  /\ draw = NoDraw
  /\ clipped = FALSE

\* reinit_lora_modules(name, module, init_config, peft_conf, **kwargs)
ReinitLoraModules ==
  /\ UNCHANGED notRl
  /\ rl_pc = "ready"
  /\ \E d \in Draws(cfg, has_grad) :
       \E r \in {Reinit(cfg, has_grad, d, lora_A.mat, lora_B.mat, weight.mat)} :
          /\ draw' = d
          /\ lora_A' = r.A
          /\ lora_B' = r.B
          /\ weight' = r.W
          /\ clipped' = r.clipped
          /\ rl_err' = r.err
          /\ rl_pc' = IF r.err = "" THEN "done" ELSE "raised"
  /\ UNCHANGED <<cfg, has_grad, weight0, lora_A0, lora_B0>>

(***************************************************************************)
(* SpecGrad: estimate_gradient on a freshly loaded model (no gradients).   *)
(***************************************************************************)
SeIdle ==
  /\ param = [n \in Names |-> 0]
  /\ named_grad = << >>
  /\ numBatches = 0
  /\ se_pc = "idle"
  /\ se_err = ""
  /\ etaIdx = 1
  /\ original_params = << >>
  /\ num = 0
  /\ loss = Fin(0, 1)
  /\ min_loss = Inf
  /\ best_eta = NoEta
  /\ param0 = param
  /\ preScope = param
  /\ scopeExits = 0
  /\ probe = 1
  /\ probeLoss = NaN

InitGrad == EgInit({<< >>}) /\ SeIdle /\ RlIdle

NextGrad ==
  \/ RegisterHooks
  \/ BeginBatch
  \/ ForwardRaises
  \/ BackwardRaises
  \/ \E p \in Names : BackwardParam(p)
  \/ \E p \in Names : BackwardSkips(p)
  \/ EndBatch
  \/ FinishEstimate

SpecGrad == InitGrad /\ [][NextGrad]_vars

(***************************************************************************)
(* SpecPrior: estimate_gradient on a model that may hold gradients of an   *)
(* earlier backward pass.                                                  *)
(***************************************************************************)
\* the gradients a model can hold when estimate_gradient is called
PriorGrads == UNION {[S -> 1..MaxGrad] : S \in SUBSET Names}

InitPrior == EgInit(PriorGrads) /\ SeIdle /\ RlIdle

SpecPrior == InitPrior /\ [][NextGrad]_vars

(***************************************************************************)
(* SpecInit: one call of reinit_lora_modules, every configuration.         *)
(***************************************************************************)
InitInit == RlInit /\ SeIdle /\ EgIdle

NextInit == ReinitLoraModules

SpecInit == InitInit /\ [][NextInit]_vars

(***************************************************************************)
(* SpecScope: search_eta over every small model and delta map, losses      *)
(* finite.  SpecEta: search_eta over every loss sequence, one model.       *)
(***************************************************************************)
InitScope == SeInit(0..MaxVal, {1}) /\ EgIdle /\ RlIdle

NextScope ==
  \/ EnterScope
  \/ EvalBatch({Fin(0, 1)})
  \/ BatchFail
  \/ EndCandidate
  \/ ReturnBest

SpecScope == InitScope /\ [][NextScope]_vars

InitEta == SeInit({0}, 1..Len(eta_list)) /\ DOMAIN named_grad = Names /\ EgIdle /\ RlIdle

NextEta ==
  \/ EnterScope
  \/ EvalBatch(LossVals)
  \/ BatchFail
  \/ EndCandidate
  \/ ReturnBest

SpecEta == InitEta /\ [][NextEta]_vars

(***************************************************************************)
(* Properties of temporary_weights and search_eta                          *)
(***************************************************************************)
DeltaNamed == Names \cap DOMAIN named_grad

\* a scope was entered and has been left, normally or by an error in its block
ScopeLeft ==
  /\ scopeExits > 0
  /\ se_pc \in {"loop", "returned", "raised"}
  /\ se_err # "entry"

\* C1: once a temporary_weights scope has been entered and is left, normally
\* or because the block raised, every parameter named in the delta map holds
\* the value it had immediately before the scope was entered.
C1_Restoration ==
  ScopeLeft => \A n \in DeltaNamed : param[n] = preScope[n]

\* the block of a scope raised after every parameter was mutated, and the
\* parameters are back
C1_Witness ==
  /\ se_pc = "raised"
  /\ se_err = "batch"
  /\ DeltaNamed = Names
  /\ \A n \in Names :
       /\ param[n] = preScope[n]
       /\ ApplyDelta(preScope[n], eta_list[etaIdx], named_grad[n]) # preScope[n]

BestIdx == CHOOSE i \in 1..Len(eta_list) : eta_list[i] = best_eta

\* C2: search_eta returns a member of the candidate list, the one whose mean
\* loss is smallest, the first such in list order.  Stated against the probe
\* candidate, which ranges over the whole list: no candidate has a smaller
\* mean loss than the returned one, and none before it has an equal one.
C2_ReturnsFirstArgmin ==
  se_pc = "returned" =>
    /\ \E i \in 1..Len(eta_list) : eta_list[i] = best_eta
    /\ ~FLess(probeLoss, min_loss)
    /\ probe = BestIdx => FEq(probeLoss, min_loss)
    /\ (probe < BestIdx /\ probeLoss.t # "nan") => FLess(min_loss, probeLoss)

\* at a scope boundary the model holds its pre-search parameters
AtBoundary ==
  \/ se_pc \in {"loop", "returned"}
  \/ se_pc = "raised" /\ se_err \in {"batch", "ZeroDivisionError"}

\* C10: at every scope boundary of search_eta (before the first candidate,
\* between candidates, on return, on a propagated batch failure) every
\* parameter equals its pre-search value, and inside a scope the candidate
\* eta is evaluated on exactly original - eta * delta.
C10_CleanBoundaries ==
  /\ AtBoundary => param = param0
  /\ se_pc = "body" =>
       \A n \in Names :
         param[n] = IF n \in DeltaNamed
                      THEN param0[n] - eta_list[etaIdx] * named_grad[n]
                      ELSE param0[n]

\* a later candidate is being evaluated, after an earlier one mutated and
\* released the same parameters
C10_Witness ==
  /\ se_pc = "body"
  /\ etaIdx = 2
  /\ num = 1
  /\ scopeExits = 1
  /\ DeltaNamed = Names
  /\ \A n \in Names : param[n] = param0[n] - eta_list[2] * named_grad[n]

(***************************************************************************)
(* Properties of estimate_gradient                                         *)
(***************************************************************************)
\* C3: for a run of N batches the value returned for a parameter is the sum
\* of the gradients autograd produced for it over the N batches, divided by
\* N: every batch's gradient is added exactly once, by a hook or by the
\* explicit call after backward.
C3_GradientAverage ==
  eg_pc = "returned" =>
    /\ DOMAIN eg_ret = gotGrad
    /\ \A n \in gotGrad : eg_ret[n] = Fin(trueSum[n], egBatches)

\* two batches, every parameter received a gradient in both
C3_Witness ==
  /\ eg_pc = "returned"
  /\ egBatches = 2
  /\ gotGrad = Names
  /\ \A n \in Names : trueSum[n] >= 2 /\ eg_ret[n] = Fin(trueSum[n], 2)
  /\ trueSum["w1"] # trueSum["w2"]

\* C7: every hook registered by estimate_gradient has been removed when
\* estimate_gradient is left, by return or by an error of a batch.
C7_HooksReleased ==
  eg_pc \in {"returned", "raised"} => hooks = {}

\* C11: after estimate_gradient has returned no parameter holds a gradient,
\* whatever the number of batches (none included) and whatever gradients
\* the model held at the call.
C11_NoPendingGrads ==
  eg_pc = "returned" => grad = << >>


(***************************************************************************)
(* Properties of reinit_lora_modules                                       *)
(***************************************************************************)
Returned == rl_pc = "done"
Failed == rl_pc = "raised"
Called == rl_pc \in {"done", "raised"}

MatAdd(X, Y) == [i \in 1..Len(X) |-> [j \in 1..Len(X[1]) |-> X[i][j] + Y[i][j]]]

\* weight + scale * (B @ A), from the weight and the factors on the module
EffectiveWeight ==
  MatAdd(weight.mat,
         MatMap(MatMul(lora_B.mat, lora_A.mat), LAMBDA v : scaling_factor * v))

OffsetPath ==
  /\ Returned
  /\ cfg.mode \in {"svd", "gradient"}
  /\ cfg.direction # "LoRA-One"
  /\ ~clipped

\* C4: on the svd and gradient paths with a direction other than LoRA-One,
\* when the clip does not trigger, after the call the weight plus
\* scale * (B @ A) of the factors stored on the module equals the weight
\* before the call.
C4_OffsetCancels ==
  OffsetPath => EffectiveWeight = weight0.mat

\* an svd call with the clip asked for and not triggered, where the bf16
\* cast changed a factor and the weight moved
C4_Witness ==
  /\ OffsetPath
  /\ cfg.mode = "svd"
  /\ cfg.direction = "LoRA-GA"
  /\ cfg.norm_clip
  /\ cfg.dtype = "bf16"
  /\ FactorInit(cfg, has_grad, draw, lora_A0.mat, lora_B0.mat).A # lora_A.mat
  /\ weight # weight0
  /\ EffectiveWeight = weight0.mat

InvalidConfiguration ==
  \/ cfg.mode \notin Modes
  \/ cfg.scale \notin Scales
  \/ cfg.direction \notin Directions
  \/ cfg.lora_A \notin Dists
  \/ cfg.lora_B \notin Dists

\* C5: under a configuration whose mode, scale, direction, lora_A or lora_B
\* is outside its accepted set, the call ends with an error and the weight
\* is the weight before the call.
C5_InvalidRejected ==
  (Called /\ InvalidConfiguration) => (Failed /\ weight = weight0)

\* C6: after a call that failed, the weight and both factors are what they
\* were before the call.
C6_FailureAtomic ==
  Failed => (weight = weight0 /\ lora_A = lora_A0 /\ lora_B = lora_B0)

MissingGradient == cfg.mode = "gradient" /\ ~has_grad

\* C8: in gradient mode without a gradient for the module, the call fails
\* with the error of the lookup, and the weight and both factors are what
\* they were before the call.
C8_MissingGradient ==
  (Called /\ MissingGradient) =>
     /\ Failed
     /\ rl_err = "KeyError"
     /\ weight = weight0
     /\ lora_A = lora_A0
     /\ lora_B = lora_B0

\* a gradient-mode call without a gradient has failed, under a configuration
\* that is otherwise accepted
C8_Witness ==
  /\ MissingGradient
  /\ Failed
  /\ ~InvalidConfiguration
  /\ ~IsZero(weight0.mat)

ZerosA == cfg.mode = "simple" /\ cfg.lora_A = "zeros" /\ cfg.lora_B \in Dists

\* C9: in simple mode with lora_A = "zeros" and an accepted lora_B, after the
\* call scale * (B @ A) of the factors on the module is the zero matrix and
\* the weight is the weight before the call, whatever norm_clip is.
C9_ZeroOffset ==
  (Called /\ ZerosA) =>
     /\ IsZero(MatMap(MatMul(lora_B.mat, lora_A.mat),
                      LAMBDA v : scaling_factor * v))
     /\ weight = weight0

\* the clip was asked for on a zero offset (the ratio has a zero
\* denominator), lora_B was sampled non-zero, and the call returned
C9_Witness ==
  /\ ZerosA
  /\ Returned
  /\ cfg.norm_clip
  /\ cfg.direction = "LoRA-GA"
  /\ ~IsZero(lora_B.mat)
  /\ ~IsZero(weight0.mat)
  /\ lora_A0 # lora_A


\* equality of the values two stored tensors stand for: a weight is
\* mat / den, a factor is mat * sqrt(num / den)
SameWeight(x, y) == MatScale(y.den, x.mat) = MatScale(x.den, y.mat)
SameFactor(x, y) ==
  \A i \in 1..Len(x.mat) : \A j \in 1..Len(x.mat[1]) :
     LET u == x.mat[i][j]
         v == y.mat[i][j]
     IN /\ u * u * x.num * y.den = v * v * y.num * x.den
        /\ (u * v >= 0 \/ x.num = 0 \/ y.num = 0)

OtherDirection == IF cfg.direction = "LoRA-One" THEN "LoRA-GA" ELSE "LoRA-One"

\* the same call, same module, same random outcomes, the other direction
OtherRun ==
  Reinit([cfg EXCEPT !.direction = OtherDirection], has_grad, draw,
         lora_A0.mat, lora_B0.mat, weight0.mat)

\* C12: in simple and svd mode a call under LoRA-One and a call under
\* LoRA-GA that agree on everything else end with the same factors and the
\* same weight.
C12_DirectionUnused ==
  (Called /\ cfg.mode \in {"simple", "svd"} /\ cfg.direction \in Directions) =>
     /\ SameFactor(OtherRun.A, lora_A)
     /\ SameFactor(OtherRun.B, lora_B)
     /\ SameWeight(OtherRun.W, weight)


\* a gradient-mode call under LoRA-GA returned, and nothing rescaled or
\* rounded the factors after they were taken from the SVD
PlainLoraGA ==
  /\ Returned
  /\ cfg.mode = "gradient"
  /\ cfg.direction = "LoRA-GA"
  /\ cfg.scale = "unit"
  /\ cfg.dtype = "none"
  /\ ~clipped

\* C13: in gradient mode under LoRA-GA, B is the block of left singular
\* vectors at indices rank..2*rank and A is the block of right singular
\* vectors at the same indices rank..2*rank.
C13_SecondBlock ==
  PlainLoraGA =>
     /\ lora_B.mat = ColBlock(draw.U, lora_r, 2 * lora_r)
     /\ lora_A.mat = RowBlock(draw.Vt, lora_r, 2 * lora_r)


SimpleStable ==
  /\ cfg.mode = "simple"
  /\ cfg.scale = "stable"
  /\ cfg.lora_A \in Dists
  /\ cfg.lora_B \in Dists

\* C14: in simple mode with scale = "stable" the call returns, and the
\* factors it leaves (before any cast or clip) are the sampled B times
\* out_dim^0.25 / sqrt(gamma) and the sampled A times in_dim^0.25 / sqrt(gamma).
C14_SimpleStable ==
  (Called /\ SimpleStable) =>
     /\ Returned
     /\ (cfg.dtype = "none" /\ ~clipped) =>
          /\ lora_B.mat = StableScale(Sample(cfg.lora_B, draw.b), OutDim)
          /\ lora_A.mat = StableScale(Sample(cfg.lora_A, draw.a), InDim)


ClipPath ==
  /\ Returned
  /\ cfg.norm_clip
  /\ cfg.direction # "LoRA-One"

\* the factors after the precision cast, and scale * (B @ A) of them
CastA == CastTo(cfg.dtype, FactorInit(cfg, has_grad, draw, lora_A0.mat, lora_B0.mat).A)
CastB == CastTo(cfg.dtype, FactorInit(cfg, has_grad, draw, lora_A0.mat, lora_B0.mat).B)
CastOffset == MatMap(MatMul(CastB, CastA), LAMBDA v : scaling_factor * v)

\* what the call subtracted from the weight, times the weight's denominator
Subtracted == MatSub(MatScale(weight.den, weight0.mat), weight.mat)

\* C15: with norm_clip set and a direction other than LoRA-One, the ratio
\* max|weight| / max|offset| is taken on the offset of the factors after the
\* cast.  If it is below 1, A and B are each multiplied by sqrt(ratio), the
\* offset subtracted from the weight is scale * (B @ A) of the stored factors,
\* and its largest absolute entry is at most that of the weight.  If it is not
\* below 1, A, B and the offset are used as they are.
C15_Clip ==
  ClipPath =>
    LET p == MaxAbs(weight0.mat)
        q == MaxAbs(CastOffset)
    IN IF q # 0 /\ p < q
         THEN /\ clipped
              /\ SameFactor(lora_A, [mat |-> CastA, num |-> p, den |-> q])
              /\ SameFactor(lora_B, [mat |-> CastB, num |-> p, den |-> q])
              /\ lora_A.num = lora_B.num /\ lora_A.den = lora_B.den
              /\ MatScale(lora_A.den, Subtracted) =
                   MatScale(scaling_factor * lora_A.num * weight.den,
                            MatMul(lora_B.mat, lora_A.mat))
              /\ MaxAbs(Subtracted) <= p * weight.den
         ELSE /\ ~clipped
              /\ lora_A = Stored(CastA)
              /\ lora_B = Stored(CastB)
              /\ weight.den = 1
              /\ Subtracted = CastOffset

\* the clip triggered on an offset of factors the bf16 cast had rounded,
\* with a non-zero weight that the call changed
C15_Witness ==
  /\ ClipPath
  /\ clipped
  /\ cfg.dtype = "bf16"
  /\ FactorInit(cfg, has_grad, draw, lora_A0.mat, lora_B0.mat).A # CastA
  /\ MaxAbs(weight0.mat) > 0
  /\ MaxAbs(weight0.mat) < MaxAbs(CastOffset)
  /\ ~SameWeight(weight, weight0)


(***************************************************************************)
(* Entry of temporary_weights                                              *)
(***************************************************************************)
EntryFailed == se_pc = "raised" /\ se_err = "entry"

\* C16: when applying eta * delta fails for a parameter while the scope is
\* being entered, every parameter named in the delta map holds its pre-entry
\* value when the error reaches the caller.
C16_EntryAtomic ==
  EntryFailed => \A n \in DeltaNamed : param[n] = preScope[n]

====
